---- MODULE Spec2Model ----
\* Model of the lexer of the drawing language (src/src/parse/lex.go).
\* A rune is its code point; a token text is the sequence of code points that
\* strings.Builder holds; the rune source is a strings.Reader over `input`.
EXTENDS Integers, Sequences, FiniteSets, TLC

VARIABLES input,   \* the runes of the source text, fixed at construction
          src,     \* the io.RuneScanner: [i, prevRune] as in strings.Reader,
                   \* and the history of its calls: unreads, twice
          result,  \* outcome of the latest Lex call (return or panic)
          start,   \* src.i when the latest Lex call was entered
          value    \* outcome of IntValue on the latest token, if called

vars == <<input, src, result, start, value>>

\* ---------------------------------------------------------------- runes
\* The rune literals that lex.go and its tests are written with.
ch_LF          == 10
ch_CR          == 13
ch_Space       == 32
ch_Hash        == 35
ch_Percent     == 37
ch_Quote       == 39
ch_OParens     == 40
ch_CParens     == 41
ch_Star        == 42
ch_Plus        == 43
ch_Comma       == 44
ch_Minus       == 45
ch_Dot         == 46
ch_Slash       == 47
ch_0           == 48
ch_1           == 49
ch_2           == 50
ch_3           == 51
ch_4           == 52
ch_5           == 53
ch_6           == 54
ch_7           == 55
ch_8           == 56
ch_9           == 57
ch_Colon       == 58
ch_LessThan    == 60
ch_Equals      == 61
ch_GreaterThan == 62
ch_A           == 65
ch_E           == 69
ch_F           == 70
ch_U           == 85
ch_Z           == 90
ch_OBracket    == 91
ch_Backslash   == 92
ch_CBracket    == 93
ch_Underscore  == 95
ch_a           == 97
ch_b           == 98
ch_e           == 101
ch_f           == 102
ch_n           == 110
ch_u           == 117
ch_x           == 120
ch_z           == 122
ch_OBrace      == 123
ch_CBrace      == 125
ch_Tilde       == 126

\* ------------------------------------------------------- call outcomes
NoToken == [TokenType |-> "none", Token |-> <<>>]
NoError == [msg |-> "none", arg |-> <<>>]

\* A normal return of a LexToken, leaving the scanner in state s.
Return(tok, s) == [kind |-> "return", tok |-> tok, err |-> NoError, s |-> s]

\* panic(fmt.Errorf(msg, arg)): the call is abandoned, no token is returned.
Panic(msg, arg, s) ==
  [kind |-> "panic", tok |-> NoToken, err |-> [msg |-> msg, arg |-> arg], s |-> s]

LexToken(type, text) == [TokenType |-> type, Token |-> text]

\* Constants for tokens that are always the same sequence of runes.
cEol            == LexToken("Eol", <<ch_LF>>)
cPercent        == LexToken("Percent", <<ch_Percent>>)
cAssignModulus  == LexToken("AssignModulus", <<ch_Percent, ch_Equals>>)
cOParens        == LexToken("OParens", <<ch_OParens>>)
cCParens        == LexToken("CParens", <<ch_CParens>>)
cStar           == LexToken("Star", <<ch_Star>>)
cAssignMultiply == LexToken("AssignMultiply", <<ch_Star, ch_Equals>>)
cPlus           == LexToken("Plus", <<ch_Plus>>)
cAssignAdd      == LexToken("AssignAdd", <<ch_Plus, ch_Equals>>)
cIncrement      == LexToken("Increment", <<ch_Plus, ch_Plus>>)
cComma          == LexToken("Comma", <<ch_Comma>>)
cMinus          == LexToken("Minus", <<ch_Minus>>)
cAssignSubtract == LexToken("AssignSubtract", <<ch_Minus, ch_Equals>>)
cDecrement      == LexToken("Decrement", <<ch_Minus, ch_Minus>>)
cSlash          == LexToken("Slash", <<ch_Slash>>)
cAssignDivide   == LexToken("AssignDivide", <<ch_Slash, ch_Equals>>)
cColon          == LexToken("Colon", <<ch_Colon>>)
cLessThan       == LexToken("LessThan", <<ch_LessThan>>)
cEquals         == LexToken("Equals", <<ch_Equals>>)
cGreaterThan    == LexToken("GreaterThan", <<ch_GreaterThan>>)
cOBracket       == LexToken("OBracket", <<ch_OBracket>>)
cCBracket       == LexToken("CBracket", <<ch_CBracket>>)
cOBrace         == LexToken("OBrace", <<ch_OBrace>>)
cCBrace         == LexToken("CBrace", <<ch_CBrace>>)
cEof            == LexToken("Eof", <<>>)
cUndefined      == LexToken("Undefined", <<>>)

\* ------------------------------------------------------ the rune source
\* src.ReadRune() of a strings.Reader, as nextRune uses it: at the end of the
\* input the read fails with io.EOF (nextRune turns that into rune 0) and the
\* reader forgets its previous rune; otherwise the rune at i is returned, i
\* advances and prevRune remembers where that rune began. unreads is the
\* number of UnreadRune calls made since the latest ReadRune call, and twice
\* records that some UnreadRune call came when unreads was not 0.
NewReader == [i |-> 0, prevRune |-> -1, unreads |-> 0, twice |-> FALSE]

nextRune(s) ==
  IF s.i >= Len(input)
    THEN [r |-> 0,
          s |-> [i |-> s.i, prevRune |-> -1, unreads |-> 0, twice |-> s.twice]]
    ELSE [r |-> input[s.i + 1],
          s |-> [i |-> s.i + 1, prevRune |-> s.i, unreads |-> 0, twice |-> s.twice]]

\* The history of the reader s after one more UnreadRune call.
Unread(s) == [s EXCEPT !.unreads = s.unreads + 1, !.twice = s.twice \/ s.unreads > 0]

\* UnreadRune that steps one rune back also after a read that failed at the end
\* of the input.
UnreadRuneAtEnd(s) ==
  CASE s.i <= 0 -> Unread(s)
    [] s.i > 0 /\ s.prevRune < 0 -> [Unread(s) EXCEPT !.i = s.i - 1]
    [] OTHER -> [Unread(s) EXCEPT !.i = s.prevRune, !.prevRune = -1]

\* src.UnreadRune(): steps back to the start of the rune read last. When the
\* last operation was not a successful ReadRune it returns an error, which
\* every call site in lex.go ignores, and the reader is left unchanged.
UnreadRune(s) ==
  IF s.i <= 0 \/ s.prevRune < 0
    THEN Unread(s)
    ELSE [Unread(s) EXCEPT !.i = s.prevRune, !.prevRune = -1]

\* strings.Builder.WriteRune: a rune that is not a valid code point (a
\* surrogate half or a value above U+10FFFF) is written as U+FFFD.
WriteRune(str, r) ==
  IF r < 0 \/ r > 1114111 \/ (r >= 55296 /\ r <= 57343)
    THEN Append(str, 65533)
    ELSE Append(str, r)

\* Helper to determine if a rune is a hex char, and its value from 0 to 15.
hexVal(r) ==
  CASE r >= ch_0 /\ r <= ch_9 -> [v |-> r - ch_0, haveIt |-> TRUE]
    [] r >= ch_A /\ r <= ch_F -> [v |-> r - ch_A + 10, haveIt |-> TRUE]
    [] r >= ch_a /\ r <= ch_f -> [v |-> r - ch_a + 10, haveIt |-> TRUE]
    [] OTHER -> [v |-> r, haveIt |-> FALSE]

\* ------------------------------------------------------ string scanner
errInvalidUnicodeEscapeMsg == "Invalid unicode escape sequence"
errInvalidEscapeMsg        == "Invalid escape sequence"
errInvalidColourMsg        == "Invalid colour"
errIncompleteFloatMsg      == "Incomplete float number"
errNameTooLongMsg          == "Name too long"
errIllegalStringCharMsg    == "Illegal string"
errUnexpectedEOF           == "Unexpected EOF"

\* A rune handed back by a helper that can also panic.
Rune(r, escaped, s) ==
  [kind |-> "return", r |-> r, escaped |-> escaped, err |-> NoError, s |-> s]
RunePanic(msg, arg, s) ==
  [kind |-> "panic", r |-> 0, escaped |-> FALSE, err |-> [msg |-> msg, arg |-> arg], s |-> s]

\* The first loop of unicodeHex: has to have at least 4 hex chars. n counts
\* the digits still to read; the outcome carries res in r and the digits read in chars.
RECURSIVE unicodeHex4(_, _, _, _)
unicodeHex4(n, res, chars, s) ==
  IF n = 0
    THEN [kind |-> "return", r |-> res, chars |-> chars, s |-> s]
    ELSE LET nr == nextRune(s)
             h  == hexVal(nr.r)
         IN IF ~h.haveIt
              THEN [kind |-> "panic", r |-> res, chars |-> chars, s |-> nr.s]
              ELSE unicodeHex4(n - 1, res * 16 + h.v, Append(chars, nr.r), nr.s)

\* unicodeHex that takes a fifth hex digit without asking for a sixth.
unicodeHexFive(prefix, s) ==
  LET four == unicodeHex4(4, 0, prefix, s)
  IN IF four.kind = "panic"
       THEN RunePanic(errInvalidUnicodeEscapeMsg, four.chars, four.s)
       ELSE LET nr5 == nextRune(four.s)
                h5  == hexVal(nr5.r)
            IN IF ~h5.haveIt
                 THEN Rune(four.r, TRUE, UnreadRune(nr5.s))
                 ELSE LET res5   == four.r * 16 + h5.v
                          nr6    == nextRune(nr5.s)
                          h6     == hexVal(nr6.r)
                      IN IF ~h6.haveIt
                           THEN Rune(res5, TRUE, UnreadRune(nr6.s))
                           ELSE Rune(res5 * 16 + h6.v, TRUE, nr6.s)

\* Helper to read 4 or 6 hex chars that specify a unicode char, the prefix
\* \u or \U+ having been read already.
unicodeHex(prefix, s) ==
  LET four == unicodeHex4(4, 0, prefix, s)
  IN IF four.kind = "panic"
       THEN RunePanic(errInvalidUnicodeEscapeMsg, four.chars, four.s)
       ELSE LET nr5 == nextRune(four.s)
                h5  == hexVal(nr5.r)
            IN IF ~h5.haveIt
                 THEN \* Not a hex char, unread it and return unicode char
                      Rune(four.r, TRUE, UnreadRune(nr5.s))
                 ELSE LET chars5 == Append(four.chars, nr5.r)
                          res5   == four.r * 16 + h5.v
                          nr6    == nextRune(nr5.s)
                          h6     == hexVal(nr6.r)
                      IN IF ~h6.haveIt
                           THEN RunePanic(errInvalidUnicodeEscapeMsg, chars5, nr6.s)
                           ELSE Rune(res5 * 16 + h6.v, TRUE, nr6.s)

\* escapedChar that takes an unknown escape for the rune after the backslash.
escapedCharLenient(s) ==
  LET nr == nextRune(s)
  IN IF nr.r = ch_Backslash
       THEN LET n2 == nextRune(nr.s)
            IN CASE n2.r = ch_Backslash -> Rune(n2.r, TRUE, n2.s)
                 [] n2.r = ch_Quote  -> Rune(n2.r, TRUE, n2.s)
                 [] n2.r = ch_n  -> Rune(ch_LF, TRUE, n2.s)
                 [] n2.r = ch_u  ->
                      unicodeHex(<<ch_Backslash, ch_u>>, n2.s)
                 [] n2.r = ch_U  ->
                      LET n3 == nextRune(n2.s)
                      IN IF n3.r # ch_Plus
                           THEN RunePanic(errInvalidUnicodeEscapeMsg,
                                          <<ch_Backslash, ch_U, n3.r>>, n3.s)
                           ELSE unicodeHex(<<ch_Backslash, ch_U, ch_Plus>>, n3.s)
                 [] OTHER -> Rune(n2.r, TRUE, n2.s)
       ELSE Rune(nr.r, FALSE, nr.s)

\* Read a unicode char, or escape sequence. Returns the resulting char and
\* whether it was the result of an escape sequence.
escapedChar(s) ==
  LET nr == nextRune(s)
  IN IF nr.r = ch_Backslash
       THEN LET n2 == nextRune(nr.s)
            IN CASE n2.r = ch_Backslash -> Rune(n2.r, TRUE, n2.s)
                 [] n2.r = ch_Quote  -> Rune(n2.r, TRUE, n2.s)
                 [] n2.r = ch_n  -> Rune(ch_LF, TRUE, n2.s)
                 [] n2.r = ch_u  ->
                      unicodeHex(<<ch_Backslash, ch_u>>, n2.s)
                 [] n2.r = ch_U  ->
                      LET n3 == nextRune(n2.s)
                      IN IF n3.r # ch_Plus
                           THEN RunePanic(errInvalidUnicodeEscapeMsg,
                                          <<ch_Backslash, ch_U, n3.r>>, n3.s)
                           ELSE unicodeHex(<<ch_Backslash, ch_U, ch_Plus>>, n3.s)
                 [] OTHER ->
                      RunePanic(errInvalidEscapeMsg, <<ch_Backslash, n2.r>>, n2.s)
       ELSE Rune(nr.r, FALSE, nr.s)

\* readStringLoop that answers an illegal character with the Undefined token.
RECURSIVE readStringLoopUndefined(_, _)
readStringLoopUndefined(str, s) ==
  LET e    == escapedChar(s)
      str2 == WriteRune(str, e.r)
  IN IF e.kind = "panic"
       THEN Panic(e.err.msg, e.err.arg, e.s)
       ELSE IF e.r < ch_Space /\ e.r # ch_CR /\ e.r # ch_LF
              THEN IF e.r = 0
                     THEN Panic(errUnexpectedEOF, <<>>, e.s)
                     ELSE Return(cUndefined, e.s)
              ELSE IF e.r = ch_Quote /\ ~e.escaped
                     THEN Return(LexToken("Str", str2), e.s)
                     ELSE readStringLoopUndefined(str2, e.s)

\* Helper to read a single quoted string. Single quoted strings end with an
\* unescaped single quote, and can have escaped or embedded newlines.
RECURSIVE readStringLoop(_, _)
readStringLoop(str, s) ==
  LET e    == escapedChar(s)
      str2 == WriteRune(str, e.r)
  IN IF e.kind = "panic"
       THEN Panic(e.err.msg, e.err.arg, e.s)
       ELSE IF e.r < ch_Space /\ e.r # ch_CR /\ e.r # ch_LF
              THEN IF e.r = 0
                     THEN Panic(errUnexpectedEOF, <<>>, e.s)
                     ELSE Panic(errIllegalStringCharMsg, str2, e.s)
              ELSE IF e.r = ch_Quote /\ ~e.escaped
                     THEN Return(LexToken("Str", str2), e.s)
                     ELSE readStringLoop(str2, e.s)

readString(s) == readStringLoop(<<ch_Quote>>, s)

\* ----------------------------------------------------- numeric scanner
isDigit(r) == r >= ch_0 /\ r <= ch_9

\* readBinaryLoop that keeps the rune that ended the number.
RECURSIVE readBinaryLoopNoUnread(_, _)
readBinaryLoopNoUnread(str, s) ==
  LET nr == nextRune(s)
  IN CASE nr.r = ch_0 \/ nr.r = ch_1 -> readBinaryLoopNoUnread(WriteRune(str, nr.r), nr.s)
       [] nr.r = ch_Underscore -> readBinaryLoopNoUnread(WriteRune(str, nr.r), nr.s)
       [] OTHER -> Return(LexToken("IntNumber", str), nr.s)

\* Helper to read a binary number of 0, 1, and _
RECURSIVE readBinaryLoop(_, _)
readBinaryLoop(str, s) ==
  LET nr == nextRune(s)
  IN CASE nr.r = ch_0 \/ nr.r = ch_1 -> readBinaryLoop(WriteRune(str, nr.r), nr.s)
       [] nr.r = ch_Underscore -> readBinaryLoop(WriteRune(str, nr.r), nr.s)
       [] OTHER -> \* first char of next token
                   Return(LexToken("IntNumber", str), UnreadRune(nr.s))

readBinaryNumber(s) == readBinaryLoop(<<ch_0, ch_b>>, s)

\* Helper to read a hex number of hex digits and _
RECURSIVE readHexLoop(_, _)
readHexLoop(str, s) ==
  LET nr == nextRune(s)
  IN CASE hexVal(nr.r).haveIt -> readHexLoop(WriteRune(str, nr.r), nr.s)
       [] nr.r = ch_Underscore -> readHexLoop(WriteRune(str, nr.r), nr.s)
       [] OTHER -> \* first char of next token
                   Return(LexToken("IntNumber", str), UnreadRune(nr.s))

readHexNumber(s) == readHexLoop(<<ch_0, ch_x>>, s)

\* readFloatLoop that keeps the rune that ended the literal.
RECURSIVE readFloatLoopNoUnread(_, _, _)
readFloatLoopNoUnread(str, mode, s) ==
  LET nr == nextRune(s)
      r  == nr.r
  IN CASE isDigit(r) ->
            readFloatLoopNoUnread(WriteRune(str, r),
                          CASE mode = 0 -> 1 [] mode = 2 -> 3 [] OTHER -> mode,
                          nr.s)
       [] r = ch_e \/ r = ch_E ->
            CASE mode = 0 -> Panic(errIncompleteFloatMsg, WriteRune(str, r), nr.s)
              [] mode = 1 -> readFloatLoopNoUnread(WriteRune(str, r), 2, nr.s)
              [] mode = 2 -> Panic(errIncompleteFloatMsg, str, nr.s)
              [] OTHER    -> Return(LexToken("FloatNumber", str), nr.s)
       [] OTHER ->
            CASE mode = 0 ->
                   Panic(errIncompleteFloatMsg, IF r # 0 THEN WriteRune(str, r) ELSE str, nr.s)
              [] mode = 1 -> Return(LexToken("FloatNumber", str), nr.s)
              [] mode = 2 ->
                   Panic(errIncompleteFloatMsg, IF r # 0 THEN WriteRune(str, r) ELSE str, nr.s)
              [] OTHER    -> Return(LexToken("FloatNumber", str), nr.s)

\* Helper to read a float number: started as a decimal number, then a ., e
\* or E was read. mode 0: after ., before first digit; 1: digits after .;
\* 2: after e, before first exponent digit; 3: after first exponent digit.
RECURSIVE readFloatLoop(_, _, _)
readFloatLoop(str, mode, s) ==
  LET nr == nextRune(s)
      r  == nr.r
  IN CASE isDigit(r) ->
            readFloatLoop(WriteRune(str, r),
                          CASE mode = 0 -> 1 [] mode = 2 -> 3 [] OTHER -> mode,
                          nr.s)
       [] r = ch_e \/ r = ch_E ->
            CASE mode = 0 -> Panic(errIncompleteFloatMsg, WriteRune(str, r), nr.s)
              [] mode = 1 -> readFloatLoop(WriteRune(str, r), 2, nr.s)
              [] mode = 2 -> Panic(errIncompleteFloatMsg, str, nr.s)
              [] OTHER    -> Return(LexToken("FloatNumber", str), UnreadRune(nr.s))
       [] OTHER ->
            CASE mode = 0 ->
                   Panic(errIncompleteFloatMsg, IF r # 0 THEN WriteRune(str, r) ELSE str, nr.s)
              [] mode = 1 -> Return(LexToken("FloatNumber", str), UnreadRune(nr.s))
              [] mode = 2 ->
                   Panic(errIncompleteFloatMsg, IF r # 0 THEN WriteRune(str, r) ELSE str, nr.s)
              [] OTHER    -> Return(LexToken("FloatNumber", str), UnreadRune(nr.s))

readFloatNumber(str, r, s) ==
  readFloatLoop(str, IF r # ch_Dot THEN 2 ELSE 0, s)

\* readDecimalLoop that leaves the separators out of the text.
RECURSIVE readDecimalLoopDropSeparator(_, _)
readDecimalLoopDropSeparator(str, s) ==
  LET nr == nextRune(s)
      r  == nr.r
  IN CASE isDigit(r) -> readDecimalLoopDropSeparator(WriteRune(str, r), nr.s)
       [] r = ch_Underscore -> readDecimalLoopDropSeparator(str, nr.s)
       [] r = ch_Dot \/ r = ch_e \/ r = ch_E ->
            readFloatNumber(WriteRune(str, r), r, nr.s)
       [] OTHER -> Return(LexToken("IntNumber", str), UnreadRune(nr.s))

\* Helper to read a decimal number, which may be an integer or float; the
\* mantissa may have _
RECURSIVE readDecimalLoop(_, _)
readDecimalLoop(str, s) ==
  LET nr == nextRune(s)
      r  == nr.r
  IN CASE isDigit(r) -> readDecimalLoop(WriteRune(str, r), nr.s)
       [] r = ch_Underscore -> readDecimalLoop(WriteRune(str, r), nr.s)
       [] r = ch_Dot \/ r = ch_e \/ r = ch_E ->
            readFloatNumber(WriteRune(str, r), r, nr.s)
       [] OTHER -> \* first char of next token
                   Return(LexToken("IntNumber", str), UnreadRune(nr.s))

readDecimalNumber(firstDigit, s) == readDecimalLoop(<<firstDigit>>, s)

\* ---------------------------------------------------------- dispatcher
isLetter(r) ==
  (r >= ch_A /\ r <= ch_Z) \/ (r >= ch_a /\ r <= ch_z)

\* The colour loop that tests each rune before it is written.
RECURSIVE readColourLoopTestFirst(_, _, _)
readColourLoopTestFirst(n, str, s) ==
  IF n = 0
    THEN Return(LexToken("Colour", str), s)
    ELSE LET nr   == nextRune(s)
             str2 == WriteRune(str, nr.r)
         IN IF ~hexVal(nr.r).haveIt
              THEN Panic(errInvalidColourMsg, str, nr.s)
              ELSE readColourLoopTestFirst(n - 1, str2, nr.s)

\* The colour loop of Lex: n runes are still to be read after the #; each is
\* written before it is tested.
RECURSIVE readColourLoop(_, _, _)
readColourLoop(n, str, s) ==
  IF n = 0
    THEN Return(LexToken("Colour", str), s)
    ELSE LET nr   == nextRune(s)
             str2 == WriteRune(str, nr.r)
         IN IF ~hexVal(nr.r).haveIt
              THEN Panic(errInvalidColourMsg, str2, nr.s)
              ELSE readColourLoop(n - 1, str2, nr.s)

\* The name loop of Lex: letters, digits and _ are appended; the loop breaks
\* on the first other rune, which has been read and stays read.
RECURSIVE readNameLoop(_, _)
readNameLoop(str, s) ==
  LET nr == nextRune(s)
      r  == nr.r
  IN IF isLetter(r) \/ isDigit(r) \/ r = ch_Underscore
       THEN readNameLoop(WriteRune(str, r), nr.s)
       ELSE [str |-> str, s |-> nr.s]

\* readName that lets a name of 17 runes pass.
readNameOffByOne(r, s) ==
  LET n == readNameLoop(<<r>>, s)
  IN IF Len(n.str) > 17
       THEN Panic(errNameTooLongMsg, n.str, n.s)
       ELSE Return(LexToken("Name", n.str), n.s)

readName(r, s) ==
  LET n == readNameLoop(<<r>>, s)
  IN IF Len(n.str) > 16
       THEN Panic(errNameTooLongMsg, n.str, n.s)
       ELSE Return(LexToken("Name", n.str), n.s)

\* lexOperator with the pushback of the lookahead rune left out.
lexOperatorNoUnread(single, withEquals, double, r, s) ==
  LET n2 == nextRune(s)
  IN CASE n2.r = ch_Equals -> Return(withEquals, n2.s)
       [] n2.r # ch_Equals /\ double # NoToken /\ n2.r = r -> Return(double, n2.s)
       [] OTHER -> Return(single, n2.s)

\* The operator cases of Lex that look one rune ahead: with = the assignment
\* token, with a repeat of the rune (+ and - only) the double token, and
\* otherwise the lookahead is unread and the single token returned.
lexOperator(single, withEquals, double, r, s) ==
  LET n2 == nextRune(s)
  IN CASE n2.r = ch_Equals -> Return(withEquals, n2.s)
       [] n2.r # ch_Equals /\ double # NoToken /\ n2.r = r -> Return(double, n2.s)
       [] OTHER -> Return(single, UnreadRune(n2.s))

\* lexZero that pushes back the digit after the 0 and then the 0 as well.
lexZeroUnreadTwice(s) ==
  LET n2 == nextRune(s)
  IN CASE n2.r = ch_b -> readBinaryNumber(n2.s)
       [] n2.r = ch_x -> readHexNumber(n2.s)
       [] isDigit(n2.r)    -> readDecimalNumber(ch_0, UnreadRune(UnreadRune(n2.s)))
       [] OTHER            -> Return(cUndefined, n2.s)

\* The 0 case of Lex. When the rune after the 0 is none of b, x or a digit no
\* inner case matches and control falls out of both switches to the final
\* return cUndefined, the rune after the 0 having been read.
lexZero(s) ==
  LET n2 == nextRune(s)
  IN CASE n2.r = ch_b -> readBinaryNumber(n2.s)
       [] n2.r = ch_x -> readHexNumber(n2.s)
       [] isDigit(n2.r)    -> readDecimalNumber(ch_0, UnreadRune(n2.s))
       [] OTHER            -> Return(cUndefined, n2.s)

\* lexCarriageReturn that takes the rune after \r whatever it is.
lexCarriageReturnNoUnread(s) ==
  LET n2 == nextRune(s)
  IN Return(cEol, n2.s)

\* The \r case of Lex: if the next rune is \n it is a windows \r\n,
\* otherwise a mac \r by itself and the rune read is unread.
lexCarriageReturn(s) ==
  LET n2 == nextRune(s)
  IN IF n2.r # ch_LF
       THEN Return(cEol, UnreadRune(n2.s))
       ELSE Return(cEol, n2.s)

\* Lex lexes the next token of the rune source in state s.
Lex(s) ==
  LET nr == nextRune(s)
      r  == nr.r
  IN CASE r = 0 -> Return(cEof, nr.s)
       [] r = ch_LF -> Return(cEol, nr.s)
       [] r = ch_CR -> lexCarriageReturn(nr.s)
       [] r = ch_Hash -> readColourLoop(6, <<ch_Hash>>, nr.s)
       [] r = ch_Percent -> lexOperator(cPercent, cAssignModulus, NoToken, r, nr.s)
       [] r = ch_Quote -> readString(nr.s)
       [] r = ch_OParens -> Return(cOParens, nr.s)
       [] r = ch_CParens -> Return(cCParens, nr.s)
       [] r = ch_Star -> lexOperator(cStar, cAssignMultiply, NoToken, r, nr.s)
       [] r = ch_Plus -> lexOperator(cPlus, cAssignAdd, cIncrement, r, nr.s)
       [] r = ch_Comma -> Return(cComma, nr.s)
       [] r = ch_Minus -> lexOperator(cMinus, cAssignSubtract, cDecrement, r, nr.s)
       [] r = ch_Slash -> lexOperator(cSlash, cAssignDivide, NoToken, r, nr.s)
       [] r = ch_Colon -> Return(cColon, nr.s)
       [] r = ch_LessThan -> Return(cLessThan, nr.s)
       [] r = ch_Equals -> Return(cEquals, nr.s)
       [] r = ch_GreaterThan -> Return(cGreaterThan, nr.s)
       [] r = ch_OBracket -> Return(cOBracket, nr.s)
       [] r = ch_CBracket -> Return(cCBracket, nr.s)
       [] r = ch_OBrace -> Return(cOBrace, nr.s)
       [] r = ch_CBrace -> Return(cCBrace, nr.s)
       [] r = ch_0 -> lexZero(nr.s)
       [] r >= ch_1 /\ r <= ch_9 -> readDecimalNumber(r, nr.s)
       [] isLetter(r) -> readName(r, nr.s)
       [] OTHER -> Return(cUndefined, nr.s)

\* ------------------------------------------------------------- IntValue
\* A uint64 is held as limbs of 16 bits, least significant first, so that no
\* intermediate value leaves the range of the checker's integers.
bitSize == 64

Zero64 == [i \in 1..(bitSize \div 16) |-> 0]

\* n * base + carry over the limbs from limb i on; carry is what does not fit.
RECURSIVE mulAdd(_, _, _, _)
mulAdd(n, base, carry, i) ==
  IF i > Len(n)
    THEN [n |-> n, carry |-> carry]
    ELSE LET v == n[i] * base + carry
         IN mulAdd([n EXCEPT ![i] = v % 65536], base, v \div 65536, i + 1)

\* The digit value strconv gives a byte; 36 for a byte that is no digit.
digitVal(c) ==
  CASE c >= ch_0 /\ c <= ch_9 -> c - ch_0
    [] c >= ch_a /\ c <= ch_z -> c - ch_a + 10
    [] c >= ch_A /\ c <= ch_Z -> c - ch_A + 10
    [] OTHER -> 36

\* strconv.ParseUint(str, base, 64) for base 2, 10 or 16: the value, or
\* ErrSyntax for an empty string or a byte that is no digit of the base, or
\* ErrRange when the value does not fit 64 bits.
RECURSIVE parseUintLoop(_, _, _)
parseUintLoop(n, str, base) ==
  IF str = <<>>
    THEN [kind |-> "return", val |-> n, err |-> "none"]
    ELSE LET m == mulAdd(n, base, digitVal(Head(str)), 1)
         IN CASE digitVal(Head(str)) >= base ->
                   [kind |-> "panic", val |-> <<>>, err |-> "ErrSyntax"]
              [] digitVal(Head(str)) < base /\ m.carry > 0 ->
                   [kind |-> "panic", val |-> <<>>, err |-> "ErrRange"]
              [] OTHER -> parseUintLoop(m.n, Tail(str), base)

ParseUint(str, base) ==
  IF str = <<>>
    THEN [kind |-> "panic", val |-> <<>>, err |-> "ErrSyntax"]
    ELSE parseUintLoop(Zero64, str, base)

HasPrefix(str, prefix) ==
  Len(str) >= Len(prefix) /\ SubSeq(str, 1, Len(prefix)) = prefix

\* strings.ReplaceAll(str, "_", "")
RemoveUnderscores(str) == SelectSeq(str, LAMBDA c : c # ch_Underscore)

\* IntValue that leaves the # of a colour in the digits.
IntValueKeepHash(l) ==
  CASE HasPrefix(l.Token, <<ch_0, ch_b>>) ->
         ParseUint(RemoveUnderscores(SubSeq(l.Token, 3, Len(l.Token))), 2)
    [] HasPrefix(l.Token, <<ch_0, ch_x>>) ->
         ParseUint(RemoveUnderscores(SubSeq(l.Token, 3, Len(l.Token))), 16)
    [] HasPrefix(l.Token, <<ch_Hash>>) ->
         ParseUint(RemoveUnderscores(l.Token), 16)
    [] OTHER -> ParseUint(RemoveUnderscores(l.Token), 10)

\* IntValue returns the integer value for Colour and IntNumber token types
IntValue(l) ==
  CASE HasPrefix(l.Token, <<ch_0, ch_b>>) ->
         ParseUint(RemoveUnderscores(SubSeq(l.Token, 3, Len(l.Token))), 2)
    [] HasPrefix(l.Token, <<ch_0, ch_x>>) ->
         ParseUint(RemoveUnderscores(SubSeq(l.Token, 3, Len(l.Token))), 16)
    [] HasPrefix(l.Token, <<ch_Hash>>) ->
         ParseUint(RemoveUnderscores(SubSeq(l.Token, 2, Len(l.Token))), 16)
    [] OTHER -> ParseUint(RemoveUnderscores(l.Token), 10)

\* ------------------------------------------------------- state machine
\* Bounds of the model: an input is at most MaxChunks fragments long.
MaxChunks == 3

\* One-rune fragments: NUL (0), tab (9), a rune beyond the BMP (128512) and
\* a rune of every class the dispatcher tells apart.
Singles ==
  {<<0>>, <<128512>>} \cup
  {<<c>> : c \in {9, ch_LF, ch_CR, ch_Space, ch_Hash, ch_Percent, ch_Quote,
                  ch_Plus, ch_Equals, ch_0, ch_1, ch_b, ch_x, ch_e, ch_Dot,
                  ch_Underscore, ch_a, ch_Backslash, ch_Tilde}}

\* Longer fragments: a colour, a float, three escape sequences and a name of
\* 17 runes.
Fragments ==
  { <<ch_Hash, ch_0, ch_a, ch_1, ch_F, ch_9, ch_e>>,
    [i \in 1..17 |-> ch_z],
    <<ch_1, ch_Dot, ch_1, ch_E, ch_1>>,
    <<ch_Backslash, ch_u, ch_0, ch_0, ch_A, ch_1>>,
    <<ch_Backslash, ch_n>>,
    <<ch_Backslash, ch_Quote>> }

RECURSIVE Flatten(_)
Flatten(chunks) ==
  IF chunks = <<>> THEN <<>> ELSE Head(chunks) \o Flatten(Tail(chunks))

NoResult == [kind |-> "none", tok |-> NoToken, err |-> NoError]

\* IntValue has not been called on the latest token.
NoValue == [kind |-> "none", val |-> <<>>, err |-> "none"]

\* A fresh strings.Reader over an input that is prefix followed by at most n
\* fragments of vocab; no Lex call has been made.
InitOn(prefix, vocab, n) ==
  /\ \E chunks \in [1..n -> vocab \cup {<<>>}] : input = prefix \o Flatten(chunks)
  /\ src = NewReader
  /\ result = NoResult
  /\ start = 0
  /\ value = NoValue

Init == InitOn(<<>>, Singles \cup Fragments, MaxChunks)

\* One call Lex(src) by the parser. A panic abandons the scan: no further
\* call is made on that cursor.
LexCall ==
  /\ result.kind # "panic"
  /\ value.kind # "panic"
  /\ LET out == Lex(src)
     IN /\ result' = [kind |-> out.kind, tok |-> out.tok, err |-> out.err]
        /\ src' = out.s
  /\ start' = src.i
  /\ value' = NoValue
  /\ UNCHANGED input

Next == LexCall

Spec == Init /\ [][Next]_vars

\* A second specification for the operator scanner: inputs over all sixteen
\* operator starters, a letter and the NUL rune.
MaxOpChunks == 3

OperatorRunes ==
  {<<0>>} \cup
  {<<c>> : c \in {ch_Percent, ch_OParens, ch_CParens, ch_Star, ch_Plus, ch_Comma,
                  ch_Minus, ch_Slash, ch_Colon, ch_LessThan, ch_Equals,
                  ch_GreaterThan, ch_OBracket, ch_CBracket, ch_OBrace, ch_CBrace,
                  ch_a}}

InitOps == InitOn(<<>>, OperatorRunes, MaxOpChunks)

SpecOps == InitOps /\ [][Next]_vars

\* A third specification for the string scanner: every input opens a string
\* literal and continues with runes and fragments of escape sequences.
MaxStrChunks == 4

\* 9 is the tab, 68 the letter D (of the surrogate half D800).
StringFragments ==
  {<<0>>} \cup
  {<<c>> : c \in {ch_Quote, ch_Backslash, ch_n, ch_a, ch_z, ch_U, ch_LF, 9}} \cup
  { <<ch_Backslash, ch_Quote>>,
    <<ch_Backslash, ch_u>>,
    <<ch_Backslash, ch_U, ch_Plus>>,
    <<ch_0, ch_0, ch_4, ch_1>>,
    <<ch_0, ch_0, ch_2, ch_7>>,
    <<68, ch_8, ch_0, ch_0>>,
    <<ch_F, ch_F>> }

InitStr == InitOn(<<ch_Quote>>, StringFragments, MaxStrChunks)

SpecStr == InitStr /\ [][Next]_vars

\* Inputs of decimal literals: digits, separators, the float markers, a rune
\* that ends a literal, and the parts "12", ".5" and "e5".
MaxNumChunks == 4

NumberFragments ==
  {<<c>> : c \in {ch_0, ch_1, ch_Underscore, ch_Dot, ch_e, ch_E, ch_Percent}} \cup
  { <<ch_1, ch_2>>, <<ch_Dot, ch_9>>, <<ch_e, ch_9>> }

InitNum == InitOn(<<>>, NumberFragments, MaxNumChunks)

SpecNum == InitNum /\ [][Next]_vars

\* Inputs of names: letters of both cases, a digit, an underscore, runes that
\* end a name, and runs of seven and of eight name runes, so that names of
\* 15, 16 and 17 runes occur.
MaxNameChunks == 3

NameFragments ==
  {<<c>> : c \in {ch_a, ch_Z, ch_1, ch_Underscore, ch_Percent, ch_Space}} \cup
  { <<ch_a, ch_1, ch_Underscore, ch_A, ch_z, ch_Z, ch_9>>,
    <<ch_A, ch_1, ch_Underscore, ch_a, ch_b, ch_0, ch_e, ch_F>> }

InitName == InitOn(<<>>, NameFragments, MaxNameChunks)

SpecName == InitName /\ [][Next]_vars

\* A caller that goes on calling Lex for as long as no call has failed, on
\* inputs of many short tokens, open strings and underscore runs.
MaxLiveChunks == 3

LiveFragments ==
  {<<c>> : c \in {ch_Quote, ch_Underscore, ch_1, ch_a, ch_CR, ch_Space}}

InitLive == InitOn(<<>>, LiveFragments, MaxLiveChunks)

SpecLive == InitLive /\ [][Next]_vars /\ WF_vars(LexCall)

\* The caller takes the integer value of the Integer or Colour token that the
\* latest Lex call returned.
IntValueCall ==
  /\ result.kind = "return"
  /\ result.tok.TokenType \in {"IntNumber", "Colour"}
  /\ value.kind = "none"
  /\ value' = IntValue(result.tok)
  /\ UNCHANGED <<input, src, result, start>>

NextInt == LexCall \/ IntValueCall

\* Inputs of integer and colour tokens: a prefix, at most MaxIntChunks digits
\* and separators, then two digits, a colour body or one of the longest
\* digit runs (the decimal and hexadecimal ones that just fit 64 bits, the
\* decimal one above them), then possibly a rune that ends the token.
MaxIntChunks == 3

MaxUint64Digits ==
  <<ch_1, ch_8, ch_4, ch_4, ch_6, ch_7, ch_4, ch_4, ch_0, ch_7,
    ch_3, ch_7, ch_0, ch_9, ch_5, ch_5, ch_1, ch_6, ch_1, ch_5>>

IntPrefixes == { <<>>, <<ch_0, ch_b>>, <<ch_0, ch_x>>, <<ch_Hash>> }

IntSingles == {<<c>> : c \in {ch_0, ch_1, ch_9, ch_F, ch_Underscore, ch_Percent}}

IntRuns ==
  { <<>>,
    <<ch_1, ch_2>>,
    <<ch_0, ch_a, ch_1, ch_F, ch_9, ch_e>>,
    MaxUint64Digits,
    SubSeq(MaxUint64Digits, 1, 19) \o <<ch_6>>,
    [i \in 1..(bitSize \div 4) |-> ch_F],
    [i \in 1..(bitSize \div 2) |-> ch_1] }

InitInt ==
  /\ \E prefix \in IntPrefixes, run \in IntRuns, tail \in {<<>>, <<ch_Percent>>} :
       \E chunks \in [1..MaxIntChunks -> IntSingles \cup {<<>>}] :
         input = prefix \o Flatten(chunks) \o run \o tail
  /\ src = NewReader
  /\ result = NoResult
  /\ start = 0
  /\ value = NoValue

SpecInt == InitInt /\ [][NextInt]_vars

\* ------------------------------------------------------------- properties
Called   == result.kind # "none"
Returned == result.kind = "return"
HasFirst == Called /\ start < Len(input)
First    == input[start + 1]
\* The runes the latest call took from the source, net of pushback.
Consumed == SubSeq(input, start + 1, src.i)
\* The input as it lay before the cursor when the latest call was entered.
Rest     == SubSeq(input, start + 1, Len(input))

IsPrefix(p, q) == Len(p) <= Len(q) /\ SubSeq(q, 1, Len(p)) = p

OperatorTable ==
  {cPercent, cAssignModulus, cOParens, cCParens, cStar, cAssignMultiply, cPlus,
   cAssignAdd, cIncrement, cComma, cMinus, cAssignSubtract, cDecrement, cSlash,
   cAssignDivide, cColon, cLessThan, cEquals, cGreaterThan, cOBracket,
   cCBracket, cOBrace, cCBrace}

OperatorStarters == {t.Token[1] : t \in OperatorTable}
OperatorTypes    == {t.TokenType : t \in OperatorTable}

LongestOperator(rest) ==
  CHOOSE t \in OperatorTable :
    /\ IsPrefix(t.Token, rest)
    /\ \A u \in OperatorTable : IsPrefix(u.Token, rest) => Len(u.Token) <= Len(t.Token)

LiteralTypes == OperatorTypes \cup {"Colour", "FloatNumber", "IntNumber", "Name"}

\* C1: after every Lex call that returns a token the cursor stands at the
\* rune right after the token's last rune: a token whose text is its source
\* form took exactly Len(text) runes, an Undefined token one rune, a Newline
\* its one or two runes, and a Str token ends at its closing quote.
C1_CursorAtNextToken ==
  Returned =>
    CASE result.tok.TokenType \in LiteralTypes ->
           src.i = start + Len(result.tok.Token)
      [] result.tok.TokenType = "Undefined" -> src.i = start + 1
      [] result.tok.TokenType = "Eol" ->
           Consumed \in {<<ch_LF>>, <<ch_CR>>, <<ch_CR, ch_LF>>}
      [] result.tok.TokenType = "Str" ->
           src.i > start + 1 /\ input[src.i] = ch_Quote
      [] OTHER -> TRUE

\* C2: once Lex has returned End-of-Input, the next Lex call on the same
\* cursor returns End-of-Input as well.
C2_EofIsFinal ==
  [][(Returned /\ result.tok = cEof) => (result'.kind = "return" /\ result'.tok = cEof)]_vars

\* C3: on an operator starter Lex returns the longest token of the operator
\* table that is a prefix of the remaining input and takes exactly that
\* token's runes, so the lookahead rune that did not extend it comes next.
C3_OperatorLongestMatch ==
  (HasFirst /\ First \in OperatorStarters) =>
    /\ Returned
    /\ result.tok = LongestOperator(Rest)
    /\ src.i = start + Len(result.tok.Token)

\* + directly followed by %: Plus is returned and % is the next rune to read.
C3_Witness ==
  /\ Returned /\ result.tok = cPlus
  /\ start + 1 < Len(input) /\ input[start + 1] = ch_Plus
  /\ input[start + 2] = ch_Percent /\ src.i = start + 1

\* C4: on \n, \r\n, or \r followed by anything else (end of input too) Lex
\* returns the Newline token with text \n and takes exactly that newline
\* sequence: two runes for \r\n, one otherwise.
C4_NewlineCanonical ==
  (HasFirst /\ First \in {ch_LF, ch_CR}) =>
    /\ Returned /\ result.tok = LexToken("Eol", <<ch_LF>>)
    /\ src.i = IF First = ch_CR /\ start + 1 < Len(input)
                  /\ input[start + 2] = ch_LF
                 THEN start + 2
                 ELSE start + 1

\* A lone \r directly followed by %: Newline is returned, % is read next.
C4_Witness ==
  /\ Returned /\ result.tok.TokenType = "Eol"
  /\ start + 1 < Len(input) /\ input[start + 1] = ch_CR
  /\ input[start + 2] = ch_Percent /\ src.i = start + 1

\* C5: when Lex returns a Name token the first rune that is not a letter,
\* digit or underscore has been pushed back: the cursor stands right after
\* the name, so that rune starts the next token.
C5_NameDelimiterPushedBack ==
  (Returned /\ result.tok.TokenType = "Name") =>
    src.i = start + Len(result.tok.Token)

\* C6: a 0 followed by a rune that is not b, x or a digit gives Undefined
\* with that rune pushed back: only the 0 has been taken.
C6_ZeroDelimiterPushedBack ==
  (HasFirst /\ First = ch_0 /\ start + 1 < Len(input)
     /\ input[start + 2] \notin {ch_b, ch_x} /\ ~isDigit(input[start + 2])) =>
    /\ Returned /\ result.tok = cUndefined
    /\ src.i = start + 1

Blanks == {ch_Space, 9}

RECURSIVE SkipBlanks(_)
SkipBlanks(j) ==
  IF j < Len(input) /\ input[j + 1] \in Blanks THEN SkipBlanks(j + 1) ELSE j

\* C7: spaces and tabs before a token produce no token: a call entered on a
\* blank returns what Lex returns from the first rune after the blanks.
C7_WhitespaceSkipped ==
  (HasFirst /\ First \in Blanks) =>
    LET o == Lex([NewReader EXCEPT !.i = SkipBlanks(start)])
    IN /\ result = [kind |-> o.kind, tok |-> o.tok, err |-> o.err]
       /\ src.i = o.s.i

\* C8: a first rune that is none of \n, \r, #, ', an operator starter, a digit
\* or a letter gives Undefined with empty text and exactly that rune taken.
C8_UnknownRuneIsUndefined ==
  (HasFirst /\ First \notin {ch_LF, ch_CR, ch_Hash, ch_Quote}
     /\ First \notin OperatorStarters /\ ~isDigit(First) /\ ~isLetter(First)) =>
    /\ Returned /\ result.tok = LexToken("Undefined", <<>>)
    /\ src.i = start + 1

\* The reading of a string literal's source that the claims describe: raw is
\* the source after the opening quote; each logical character is one rune,
\* or a backslash escape with the value it stands for.
Min(a, b) == IF a < b THEN a ELSE b

RECURSIVE HexRun(_, _)
HexRun(raw, d) ==
  IF d <= Len(raw) /\ hexVal(raw[d]).haveIt THEN 1 + HexRun(raw, d + 1) ELSE 0

RECURSIVE HexValue(_)
HexValue(digits) ==
  IF digits = <<>>
    THEN 0
    ELSE HexValue(SubSeq(digits, 1, Len(digits) - 1)) * 16 + hexVal(digits[Len(digits)]).v

\* The escape whose hex digits start at raw[d], after a prefix of pre runes:
\* six digits when a fifth hex digit follows the first four, else four.
UnicodeEscape(raw, d, pre) ==
  LET n == IF HexRun(raw, d) >= 5 THEN 6 ELSE 4
  IN [cp |-> HexValue(SubSeq(raw, d, Min(d + n - 1, Len(raw)))),
      len |-> pre + n, escaped |-> TRUE]

LogicalChar(raw, k) ==
  IF raw[k] = ch_Backslash /\ k < Len(raw)
    THEN CASE raw[k + 1] = ch_n -> [cp |-> ch_LF, len |-> 2, escaped |-> TRUE]
           [] raw[k + 1] = ch_u -> UnicodeEscape(raw, k + 2, 2)
           [] raw[k + 1] = ch_U -> UnicodeEscape(raw, k + 3, 3)
           [] OTHER -> [cp |-> raw[k + 1], len |-> 2, escaped |-> TRUE]
    ELSE [cp |-> raw[k], len |-> 1, escaped |-> FALSE]

RECURSIVE LogicalChars(_, _)
LogicalChars(raw, k) ==
  IF k > Len(raw)
    THEN <<>>
    ELSE LET c == LogicalChar(raw, k)
         IN <<[cp |-> c.cp, escaped |-> c.escaped]>> \o LogicalChars(raw, k + c.len)

UnescapedQuote == [cp |-> ch_Quote, escaped |-> FALSE]

\* The latest call read a string literal up to its first unescaped quote and
\* its text is the opening quote followed by Written(value) of each logical
\* character read, the closing quote included.
StrTextIs(Written(_)) ==
  LET chars == LogicalChars(SubSeq(input, start + 2, src.i), 1)
  IN /\ input[start + 1] = ch_Quote
     /\ Len(chars) >= 1
     /\ chars[Len(chars)] = UnescapedQuote
     /\ \A j \in 1..(Len(chars) - 1) : chars[j] # UnescapedQuote
     /\ result.tok.Token = <<ch_Quote>> \o [j \in 1..Len(chars) |-> Written(chars[j].cp)]

CodePoint(cp) == cp

\* A value that is no valid code point (a surrogate half, or above U+10FFFF)
\* is held in the text as U+FFFD.
CodePointOrReplacement(cp) ==
  IF cp \in 55296..57343 \/ cp > 1114111 THEN 65533 ELSE cp

\* C10 as stated: a Str token's text is the opening quote, the decoded value
\* of every logical character up to the first unescaped quote, and that quote.
C10_StrTextDecoded ==
  (Returned /\ result.tok.TokenType = "Str") => StrTextIs(CodePoint)

\* With U+FFFD read for a value that is no valid code point, the text of
\* every Str token is as C10 describes it.
StrTextDecodedOrReplaced ==
  (Returned /\ result.tok.TokenType = "Str") => StrTextIs(CodePointOrReplacement)

\* C9 as stated: for every kind but Newline the text of a returned token is
\* the runes the call took from the input.
C9_TextIsConsumed ==
  (Returned /\ result.tok.TokenType \in LiteralTypes \cup {"Str", "Undefined"}) =>
    result.tok.Token = Consumed

\* C9 amended: operator, numeric and Colour tokens have the runes taken as
\* their text; a Name has the runes of the name, the rune that ended it being
\* taken as well when there is one but never part of the text; Newline has \n
\* for each newline form; Undefined and End-of-Input have the empty text
\* whatever was taken; Str has the decoded characters between its quotes.
C9_TextPerKind ==
  Returned =>
    CASE result.tok.TokenType \in LiteralTypes \ {"Name"} ->
           result.tok.Token = Consumed
      [] result.tok.TokenType = "Name" ->
           /\ IsPrefix(result.tok.Token, Consumed)
           /\ Len(Consumed) <= Len(result.tok.Token) + 1
      [] result.tok.TokenType = "Eol" ->
           /\ result.tok.Token = <<ch_LF>>
           /\ Consumed \in {<<ch_LF>>, <<ch_CR>>, <<ch_CR, ch_LF>>}
      [] result.tok.TokenType \in {"Undefined", "Eof"} ->
           result.tok.Token = <<>>
      [] result.tok.TokenType = "Str" ->
           StrTextIs(CodePointOrReplacement)

\* A decimal literal with a separator in it, its text the runes as written.
C9_Witness ==
  /\ Returned /\ result.tok.TokenType = "IntNumber"
  /\ \E j \in 1..Len(Consumed) : Consumed[j] = ch_Underscore
  /\ result.tok.Token = Consumed

\* The course of a string literal as the claims describe it, read from the
\* input itself: ScanStr(k) is what the literal comes to when its next logical
\* character starts at input[k]. "end": the unescaped closing quote is at k;
\* "eof": the input ends first (at k, after a backslash or within a unicode
\* escape); "control": a character below space other than \r and \n, raw at k
\* or the value of the escape at k; "badEscape": a backslash at k followed by
\* a rune that starts no escape; "badUnicode": a malformed \u or \U+ at k.
IsControl(r) == r < ch_Space /\ r # ch_CR /\ r # ch_LF

RECURSIVE ScanStr(_)
ScanUnicode(d, k) ==
  LET n      == HexRun(input, d)
      digits == IF n >= 6 THEN 6 ELSE 4
  IN CASE n < 4 \/ n = 5 ->
            [ev |-> IF d + n > Len(input) THEN "eof" ELSE "badUnicode", at |-> k]
       [] n \notin {0, 1, 2, 3, 5} /\ IsControl(HexValue(SubSeq(input, d, d + digits - 1))) ->
            [ev |-> "control", at |-> k]
       [] OTHER -> ScanStr(d + digits)

ScanStr(k) ==
  CASE k > Len(input) -> [ev |-> "eof", at |-> k]
    [] k <= Len(input) /\ input[k] # ch_Backslash ->
         CASE IsControl(input[k]) -> [ev |-> "control", at |-> k]
           [] input[k] = ch_Quote -> [ev |-> "end", at |-> k]
           [] OTHER -> ScanStr(k + 1)
    [] k = Len(input) /\ input[k] = ch_Backslash -> [ev |-> "eof", at |-> k]
    [] OTHER ->
         LET c == input[k + 1]
         IN CASE c \in {ch_Backslash, ch_Quote, ch_n} -> ScanStr(k + 2)
              [] c = ch_u -> ScanUnicode(k + 2, k)
              [] c = ch_U ->
                   CASE k + 2 > Len(input) -> [ev |-> "eof", at |-> k]
                     [] k + 2 <= Len(input) /\ input[k + 2] # ch_Plus ->
                          [ev |-> "badUnicode", at |-> k]
                     [] OTHER -> ScanUnicode(k + 3, k)
              [] OTHER -> [ev |-> "badEscape", at |-> k]

OnString == HasFirst /\ First = ch_Quote

PanickedWith(msg) == result.kind = "panic" /\ result.err.msg = msg

\* C11: in a string literal every character below space other than \r and \n
\* (NUL too, raw or from a unicode escape) fails with the illegal-string-
\* character error, and the unexpected-end-of-input error is raised exactly
\* when the input ends before the unescaped closing quote.
C11_StringControlAndEof ==
  OnString =>
    /\ ScanStr(start + 2).ev = "control" => PanickedWith(errIllegalStringCharMsg)
    /\ PanickedWith(errUnexpectedEOF) <=> ScanStr(start + 2).ev = "eof"

\* C12: in a string literal a backslash followed by a rune other than \, ', n,
\* u or U fails with the invalid-escape-sequence error naming the backslash
\* and that rune; no Str token is returned.
C12_InvalidEscape ==
  (OnString /\ ScanStr(start + 2).ev = "badEscape") =>
    /\ result.kind = "panic" /\ result.tok = NoToken
    /\ result.err = [msg |-> errInvalidEscapeMsg,
                     arg |-> <<ch_Backslash, input[ScanStr(start + 2).at + 1]>>]

\* \z after an escaped quote: the error names \z.
C12_Witness ==
  /\ OnString /\ ScanStr(start + 2).ev = "badEscape"
  /\ ScanStr(start + 2).at > start + 2
  /\ result.err = [msg |-> errInvalidEscapeMsg, arg |-> <<ch_Backslash, ch_z>>]

\* The shape of the decimal literal whose first digit is input[k], read from
\* the input itself. DigitsEnd(j) and MantissaEnd(j) are the index of the last
\* rune of the run of digits (digits and underscores) that starts at j, j - 1
\* when the run is empty.
RECURSIVE DigitsEnd(_)
DigitsEnd(j) ==
  IF j <= Len(input) /\ isDigit(input[j]) THEN DigitsEnd(j + 1) ELSE j - 1

RECURSIVE MantissaEnd(_)
MantissaEnd(j) ==
  IF j <= Len(input) /\ (isDigit(input[j]) \/ input[j] = ch_Underscore)
    THEN MantissaEnd(j + 1) ELSE j - 1

IsAt(j, runes) == j <= Len(input) /\ input[j] \in runes

\* The exponent part whose marker is input[p].
ExponentShape(p) ==
  IF DigitsEnd(p + 1) = p
    THEN [kind |-> "incomplete", end |-> p]
    ELSE [kind |-> "float", end |-> DigitsEnd(p + 1)]

\* kind "int": the mantissa is not followed by . e E; "float": a complete
\* fraction and/or exponent follows; "incomplete": the rune after the marker
\* input[end] is no digit. end is the index of the literal's last rune.
DecimalShape(k) ==
  LET m == MantissaEnd(k + 1)
  IN CASE IsAt(m + 1, {ch_e, ch_E}) -> ExponentShape(m + 1)
       [] IsAt(m + 1, {ch_Dot}) ->
            LET f == DigitsEnd(m + 2)
            IN CASE f = m + 1 -> [kind |-> "incomplete", end |-> m + 1]
                 [] f > m + 1 /\ IsAt(f + 1, {ch_e, ch_E}) -> ExponentShape(f + 1)
                 [] OTHER -> [kind |-> "float", end |-> f]
       [] OTHER -> [kind |-> "int", end |-> m]

\* The call is on a decimal literal: the dispatcher hands it to
\* readDecimalNumber.
OnDecimal ==
  /\ HasFirst
  /\ \/ First \in ch_1..ch_9
     \/ First = ch_0 /\ IsAt(start + 2, ch_0..ch_9)

\* C13: when the rune right after '.', 'e' or 'E' of a decimal literal is not
\* a digit, Lex fails with the incomplete-float error whose text is the
\* literal so far plus the offending rune, which is left out only at end of
\* input.
C13_IncompleteFloatText ==
  (OnDecimal /\ DecimalShape(start + 1).kind = "incomplete") =>
    LET p == DecimalShape(start + 1).end
    IN /\ PanickedWith(errIncompleteFloatMsg)
       /\ result.err.arg = SubSeq(input, start + 1, p)
                             \o (IF p < Len(input) THEN <<input[p + 1]>> ELSE <<>>)

\* The float grammar: a digit, digits and underscores, then optionally '.' and
\* one or more digits, then optionally one e or E and one or more digits, at
\* least one of the two parts. States: 0 start, 1 mantissa, 2 after '.',
\* 3 fraction digits, 4 after the exponent marker, 5 exponent digits, 6 reject.
FloatStep(q, r) ==
  CASE q = 0 /\ isDigit(r) -> 1
    [] q = 1 /\ (isDigit(r) \/ r = ch_Underscore) -> 1
    [] q = 1 /\ r = ch_Dot -> 2
    [] q \in {1, 3} /\ r \in {ch_e, ch_E} -> 4
    [] q \in {2, 3} /\ isDigit(r) -> 3
    [] q \in {4, 5} /\ isDigit(r) -> 5
    [] OTHER -> 6

RECURSIVE FloatRun(_, _)
FloatRun(q, t) == IF t = <<>> THEN q ELSE FloatRun(FloatStep(q, Head(t)), Tail(t))

IsFloatText(t) == FloatRun(0, t) \in {3, 5}

\* C14: a decimal literal comes back as IntNumber when its run of digits and
\* underscores is not directly followed by '.', 'e' or 'E' and as FloatNumber
\* otherwise; the token's text is the literal, the cursor rests right after
\* it so the rune that ended it starts the next token, and every FloatNumber
\* text follows the float grammar.
C14_IntOrFloat ==
  /\ result.tok.TokenType = "FloatNumber" => IsFloatText(result.tok.Token)
  /\ OnDecimal =>
       LET sh == DecimalShape(start + 1)
       IN /\ sh.kind = "incomplete" <=> result.kind = "panic"
          /\ sh.kind # "incomplete" =>
               /\ result.tok = LexToken(IF sh.kind = "int" THEN "IntNumber" ELSE "FloatNumber",
                                        SubSeq(input, start + 1, sh.end))
               /\ src.i = sh.end

\* "12e9e9": the first call returned Float "12e9" and left the second e.
C14_Witness ==
  /\ OnDecimal /\ start = 0
  /\ result.tok = LexToken("FloatNumber", <<ch_1, ch_2, ch_e, ch_9>>)
  /\ src.i = 4 /\ IsAt(5, {ch_e})

\* The digits and the base that the claim gives a token: the text without
\* its prefix and without underscores.
TokenBase(l) ==
  CASE HasPrefix(l.Token, <<ch_0, ch_b>>) -> 2
    [] HasPrefix(l.Token, <<ch_0, ch_x>>) \/ HasPrefix(l.Token, <<ch_Hash>>) -> 16
    [] OTHER -> 10

TokenDigits(l) ==
  LET pre == CASE TokenBase(l) = 10 -> 0 [] l.Token[1] = ch_Hash -> 1 [] OTHER -> 2
  IN SelectSeq(SubSeq(l.Token, pre + 1, Len(l.Token)), LAMBDA c : c # ch_Underscore)

RECURSIVE Significant(_)
Significant(d) ==
  IF d # <<>> /\ Head(d) = ch_0 THEN Significant(Tail(d)) ELSE d

\* a <= b for digit strings of one length.
RECURSIVE DigitsLeq(_, _)
DigitsLeq(a, b) ==
  \/ a = <<>>
  \/ Head(a) < Head(b)
  \/ Head(a) = Head(b) /\ DigitsLeq(Tail(a), Tail(b))

\* The value of the digit string d in the base is at most 2^64 - 1.
Fits64(d, base) ==
  LET sig == Significant(d)
  IN CASE base = 2  -> Len(sig) <= bitSize
       [] base = 16 -> Len(sig) <= bitSize \div 4
       [] OTHER -> \/ Len(sig) < Len(MaxUint64Digits)
                   \/ Len(sig) = Len(MaxUint64Digits) /\ DigitsLeq(sig, MaxUint64Digits)

\* The limbs n divided by base, from limb i down, with remainder rem carried in.
RECURSIVE divMod(_, _, _, _)
divMod(n, base, rem, i) ==
  IF i = 0
    THEN [n |-> n, rem |-> rem]
    ELSE LET cur == rem * 65536 + n[i]
         IN divMod([n EXCEPT ![i] = cur \div base], base, cur % base, i - 1)

\* The digit values of the limbs n in the base, most significant first, no
\* leading zero.
RECURSIVE DigitValues(_, _)
DigitValues(n, base) ==
  IF n = Zero64
    THEN <<>>
    ELSE LET qr == divMod(n, base, 0, Len(n))
         IN Append(DigitValues(qr.n, base), qr.rem)

\* C15: on every Integer or Colour token that Lex returns, IntValue returns
\* the value in the token's base of its digits (prefix and underscores
\* stripped) when that is at most 2^64 - 1, and fails with a range error when
\* it is larger; it fails in no other way.
C15_IntValueDecodes ==
  value.kind # "none" =>
    LET d    == TokenDigits(result.tok)
        base == TokenBase(result.tok)
    IN IF Fits64(d, base)
         THEN /\ value.kind = "return"
              /\ DigitValues(value.val, base)
                   = [i \in 1..Len(Significant(d)) |-> hexVal(Significant(d)[i]).v]
         ELSE value.kind = "panic" /\ value.err = "ErrRange"

\* What does hold: the same with the empty digit string set apart, on which
\* IntValue fails with a syntax error.
IntValueDecodesDigits ==
  value.kind # "none" =>
    LET d    == TokenDigits(result.tok)
        base == TokenBase(result.tok)
    IN CASE d = <<>> -> value.kind = "panic" /\ value.err = "ErrSyntax"
         [] d # <<>> /\ Fits64(d, base) ->
              /\ value.kind = "return"
              /\ DigitValues(value.val, base)
                   = [i \in 1..Len(Significant(d)) |-> hexVal(Significant(d)[i]).v]
         [] OTHER -> value.kind = "panic" /\ value.err = "ErrRange"

\* The call is on '#' followed by at least six hex digits.
OnColour == HasFirst /\ First = ch_Hash /\ HexRun(input, start + 2) >= 6

\* C16: Lex on '#' and six hex digits h returns the Colour token '#' + h with
\* the case of h kept and consumes exactly those seven runes, and IntValue of
\* the token is the base-16 value of h.
C16_ColourRoundTrip ==
  OnColour =>
    /\ Returned
    /\ result.tok = LexToken("Colour", SubSeq(input, start + 1, start + 7))
    /\ src.i = start + 7
    /\ value.kind # "none" =>
         /\ value.kind = "return"
         /\ value.val[3] = 0 /\ value.val[4] = 0
         /\ value.val[1] + 65536 * value.val[2]
              = HexValue(SubSeq(input, start + 2, start + 7))

\* "#0a1F9e" with a rune after it: the token is decoded and the rune is left.
C16_Witness ==
  /\ OnColour
  /\ result.tok = LexToken("Colour", <<ch_Hash, ch_0, ch_a, ch_1, ch_F, ch_9, ch_e>>)
  /\ value.kind = "return"
  /\ src.i < Len(input)

\* C17: after '#' the next six runes are read one by one and each is written
\* to the text before it is tested; the first of them that is no hex digit
\* (rune 0 when the input has ended) makes Lex fail with the invalid-colour
\* error whose text is '#' and the runes read, the offending one included.
\* Every Colour token is '#' followed by six hex digits.
C17_InvalidColour ==
  /\ result.tok.TokenType = "Colour" =>
       /\ Len(result.tok.Token) = 7
       /\ result.tok.Token[1] = ch_Hash
       /\ \A i \in 2..7 : hexVal(result.tok.Token[i]).haveIt
  /\ (HasFirst /\ First = ch_Hash /\ HexRun(input, start + 2) < 6) =>
       LET k == start + 2 + HexRun(input, start + 2)
       IN /\ PanickedWith(errInvalidColourMsg)
          /\ result.tok = NoToken
          /\ result.err.arg = SubSeq(input, start + 1, k - 1)
                                \o <<IF k <= Len(input) THEN input[k] ELSE 0>>

\* Five hex digits and then a rune that is none: the error text has all seven.
C17_Witness ==
  /\ HasFirst /\ First = ch_Hash /\ HexRun(input, start + 2) = 5
  /\ start + 7 <= Len(input)
  /\ PanickedWith(errInvalidColourMsg)
  /\ result.err.arg = SubSeq(input, start + 1, start + 7)

\* The input ends after '#' and two hex digits: the error text ends in rune 0.
ColourCutShort ==
  /\ HasFirst /\ First = ch_Hash /\ Len(input) = start + 3
  /\ PanickedWith(errInvalidColourMsg)
  /\ result.err.arg = SubSeq(input, start + 1, start + 3) \o <<0>>

\* The index of the last rune of the run of letters, digits and underscores
\* that starts at input[j], j - 1 when the run is empty.
RECURSIVE NameEnd(_)
NameEnd(j) ==
  IF j <= Len(input) /\ (isLetter(input[j]) \/ isDigit(input[j]) \/ input[j] = ch_Underscore)
    THEN NameEnd(j + 1) ELSE j - 1

\* C18: Lex on a letter followed by a run of letters, digits and underscores
\* returns the Name token whose text is the letter and the run, unchanged,
\* when that is at most 16 runes, and fails with the name-too-long error
\* carrying the letter and the whole run when it is 17 runes or more.
C18_NameLength ==
  (HasFirst /\ isLetter(First)) =>
    LET name == SubSeq(input, start + 1, NameEnd(start + 2))
    IN IF Len(name) <= 16
         THEN Returned /\ result.tok = LexToken("Name", name)
         ELSE /\ result.kind = "panic" /\ result.tok = NoToken
              /\ result.err = [msg |-> errNameTooLongMsg, arg |-> name]

\* A name of exactly 17 runes failed with all 17.
C18_Witness ==
  /\ HasFirst /\ isLetter(First)
  /\ NameEnd(start + 2) = start + 17
  /\ PanickedWith(errNameTooLongMsg)
  /\ Len(result.err.arg) = 17

\* A name of exactly 16 runes came back whole.
NameOfSixteen ==
  /\ HasFirst /\ isLetter(First)
  /\ Returned /\ result.tok.TokenType = "Name" /\ Len(result.tok.Token) = 16

\* The runes that a case of the dispatcher takes up.
DispatchedRunes ==
  {ch_LF, ch_CR, ch_Hash, ch_Quote} \cup OperatorStarters
    \cup (ch_0..ch_9) \cup (ch_A..ch_Z) \cup (ch_a..ch_z)

\* The call is on a malformed colour, string (bad escape included), float or
\* an over-length name.
Malformed ==
  /\ HasFirst
  /\ \/ First = ch_Hash /\ HexRun(input, start + 2) < 6
     \/ First = ch_Quote /\ ScanStr(start + 2).ev # "end"
     \/ OnDecimal /\ DecimalShape(start + 1).kind = "incomplete"
     \/ isLetter(First) /\ NameEnd(start + 2) - start > 16

\* C19: the Undefined token comes from the dispatcher only, on a first rune
\* that no case takes up or on '0' not followed by b, x or a digit; every
\* malformed colour, string, escape, float and over-length name fails the
\* call, and a failed call returns no token.
C19_UndefinedOnlyFromDispatcher ==
  /\ result.tok.TokenType = "Undefined" =>
       /\ Returned /\ HasFirst
       /\ \/ First \notin DispatchedRunes \cup {0}
          \/ First = ch_0 /\ ~IsAt(start + 2, {ch_b, ch_x} \cup (ch_0..ch_9))
  /\ Malformed => result.kind = "panic"
  /\ result.kind = "panic" => result.tok = NoToken /\ Malformed

\* After an earlier token, "0" followed by a rune that is none of b, x and the
\* digits came back as Undefined.
C19_Witness ==
  /\ start > 0 /\ HasFirst /\ First = ch_0 /\ IsAt(start + 2, {ch_Dot, ch_e})
  /\ result.tok = cUndefined

\* Each kind of malformed token failed a call.
FailedColour == Malformed /\ First = ch_Hash /\ result.kind = "panic"
FailedString == Malformed /\ First = ch_Quote /\ result.kind = "panic"
FailedFloat  == Malformed /\ OnDecimal /\ result.kind = "panic"
FailedName   == Malformed /\ isLetter(First) /\ result.kind = "panic"

\* C20: every call that returns a token other than End-of-Input leaves the
\* cursor at least one rune further on than it found it, and a caller that
\* keeps calling Lex on a finite input eventually gets End-of-Input or a
\* failure.
C20_ProgressAndTermination ==
  /\ []((Returned /\ result.tok # cEof) => src.i > start)
  /\ <>(result.kind = "panic" \/ result.tok = cEof)

\* End-of-Input was returned at the true end of an input of three runes, an
\* underscore among them, after the tokens before it.
C20_Witness ==
  /\ result.tok = cEof /\ start = Len(input) /\ Len(input) = 3
  /\ \E j \in 1..3 : input[j] = ch_Underscore

\* C21: on one reader, over any sequence of Lex calls, UnreadRune is never
\* called twice with no ReadRune call between, within a call or from one call
\* to the next, so at most one rune is ever pending.
C21_SinglePushback == ~src.twice /\ src.unreads <= 1

\* "+01": the first call pushed the 0 back; the second pushed the 1 back,
\* read it again in readDecimalNumber and ended on one more pushback.
C21_Witness ==
  /\ Returned /\ start = 1 /\ input[1] = ch_Plus
  /\ HasFirst /\ First = ch_0 /\ IsAt(start + 2, {ch_1})
  /\ result.tok.TokenType = "IntNumber"
  /\ src.unreads = 1

\* The call is on a string that opens with \u or \U+.
OnUnicodeEscape ==
  /\ OnString /\ IsAt(start + 2, {ch_Backslash})
  /\ \/ IsAt(start + 3, {ch_u})
     \/ IsAt(start + 3, {ch_U}) /\ IsAt(start + 4, {ch_Plus})

\* C22: after \u or \U+ four hex digits are required; when the rune after
\* them is no hex digit it is pushed back and the value is the code point of
\* the four digits; when it is one, a sixth hex digit is required and the
\* value is the code point of the six digits. Fewer than four digits, and
\* exactly five, fail with the invalid-unicode-escape error. The value is
\* what escapedChar returns, and it is what is written to the token's text.
C22_FourOrSixDigits ==
  OnUnicodeEscape =>
    LET d == IF input[start + 3] = ch_u THEN start + 4 ELSE start + 5
        n == HexRun(input, d)
        e == escapedChar([NewReader EXCEPT !.i = start + 1])
        m == IF n = 4 THEN 4 ELSE 6
    IN IF n \in {0, 1, 2, 3, 5}
         THEN e.kind = "panic" /\ PanickedWith(errInvalidUnicodeEscapeMsg)
         ELSE /\ e.kind = "return" /\ e.escaped
              /\ e.r = HexValue(SubSeq(input, d, d + m - 1))
              /\ e.s.i = d + m - 1
              /\ Returned => result.tok.Token[2] = WriteRune(<<>>, e.r)[1]

\* 'AFF': six digits, one character U+0041FF in the text.
C22_Witness ==
  /\ OnUnicodeEscape /\ HexRun(input, start + 4) = 6
  /\ result.tok = LexToken("Str", <<ch_Quote, 16895, ch_Quote>>)

\* Five digits failed; four digits and then a rune that is no hex digit gave
\* the four-digit code point and the rune after it was read again.
FiveDigitsRejected ==
  /\ OnUnicodeEscape /\ HexRun(input, start + 4) = 5
  /\ PanickedWith(errInvalidUnicodeEscapeMsg)
FourDigitsAndPushback ==
  /\ OnUnicodeEscape /\ input[start + 3] = ch_U /\ HexRun(input, start + 5) = 4
  /\ result.tok = LexToken("Str", <<ch_Quote, ch_A, ch_z, ch_Quote>>)

\* The index of the last rune of the run of digits of the base (2 or 16) and
\* underscores that starts at input[j], j - 1 when the run is empty.
RECURSIVE PrefixedEnd(_, _)
PrefixedEnd(j, base) ==
  IF /\ j <= Len(input)
     /\ \/ input[j] = ch_Underscore
        \/ base = 2 /\ input[j] \in {ch_0, ch_1}
        \/ base = 16 /\ hexVal(input[j]).haveIt
    THEN PrefixedEnd(j + 1, base) ELSE j - 1

\* The call is on 0b or 0x.
OnPrefixed == HasFirst /\ First = ch_0 /\ IsAt(start + 2, {ch_b, ch_x})

\* C23: after 0b (0x) Lex takes the longest run of 0, 1 and _ (of hex digits
\* of either case and _), returns the IntNumber whose text is the prefix and
\* the run as written, the run possibly empty, and leaves the cursor on the
\* first rune outside the run.
C23_PrefixedRun ==
  OnPrefixed =>
    LET end == PrefixedEnd(start + 3, IF input[start + 2] = ch_b THEN 2 ELSE 16)
    IN /\ Returned
       /\ result.tok = LexToken("IntNumber", SubSeq(input, start + 1, end))
       /\ src.i = end

\* "0b1012": IntNumber "0b101" is returned and the cursor is on the 2.
C23_Witness ==
  /\ OnPrefixed
  /\ result.tok = LexToken("IntNumber", <<ch_0, ch_b, ch_1, ch_0, ch_1>>)
  /\ IsAt(src.i + 1, {ch_2})

\* A hex run of both cases with a separator, and an empty run.
HexRunAsWritten ==
  /\ OnPrefixed /\ Returned
  /\ \E j \in 3..Len(result.tok.Token) : result.tok.Token[j] = ch_a
  /\ \E j \in 3..Len(result.tok.Token) : result.tok.Token[j] = ch_F
  /\ \E j \in 3..Len(result.tok.Token) : result.tok.Token[j] = ch_Underscore
  /\ src.i < Len(input)
EmptyRun ==
  OnPrefixed /\ result.tok = LexToken("IntNumber", <<ch_0, ch_x>>) /\ src.i < Len(input)

\* C24: Lex returns End-of-Input only when the source has no rune left: on
\* every input, one that holds U+0000 included, the whole input has been
\* read when End-of-Input is returned.
C24_EofOnlyAtEnd ==
  (Returned /\ result.tok = cEof) => src.i = Len(input)

====
